---- MODULE Spec2Model ----
(***************************************************************************)
(* A model of protocol.Connection (src/protocol/protocol.go): one          *)
(* connection with its reader loop, its keep-alive loop and the keep-alive *)
(* ping goroutine, application callers of Request, Ping and Index, and the *)
(* response goroutines processRequest starts.  The peer and the transport  *)
(* are the environment: the peer chooses every inbound frame, the          *)
(* transport may start to fail writes, and time may pass.                  *)
(*                                                                         *)
(* c.RWMutex is the variable mu.  A section that holds it over several     *)
(* writes is several steps; an RLock section only reads and is one step    *)
(* that waits for mu to be free.  A Go panic ends the program: it sets     *)
(* crashed, and no step is taken after it.                                 *)
(***************************************************************************)
EXTENDS Integers, Sequences, FiniteSets, TLC

\* ---------------------------------------------------------------- bounds
MaxEvents == 3      \* calls, inbound frames, transport and idle events in one run
MaxIndexEvents == 3 \* the same, in the runs of Index alone
MaxCorrEvents == 4  \* the same, in the runs of requests and responses
MaxTasks == 2       \* response goroutines (inbound Request frames) in one run
MaxIdxLen == 2      \* the longest list handed to Index
MaxPeerId == 1      \* the largest msgID the peer puts in a header
MaxWrapEvents == 3  \* calls and inbound frames in the runs around the wrap of nextId
MaxRecvEvents == 4  \* the events in the runs of inbound index frames

\* ------------------------------------------------------ program constants
messageTypeIndex == 1
messageTypeRequest == 2
messageTypeResponse == 3
messageTypePing == 4
messageTypePong == 5
messageTypeIndexUpdate == 6
IdMod == 4096       \* (c.nextId + 1) & 0xfff

\* ------------------------------------------------------------ input sets
Names == {"a", "b"}
Modifieds == {1, 2}
Datas == {"x", "y"}
Latencies == {1, 4}
BadTypes == {0, 7}

FileInfo == [Name : Names, Modified : Modifieds]

\* Block(name): what the receiver's store holds for a name.
Block(name) == IF name = "a" THEN "x" ELSE "y"

\* ------------------------------------------------------------- processes
Reader == <<"reader", 0>>
Pinger == <<"pinger", 0>>
PingTask == <<"pingtask", 0>>
NoProc == <<"none", 0>>
Callers == {<<"caller", 1>>, <<"caller", 2>>}
Tasks == {<<"task", i>> : i \in 1..MaxTasks}
PingCallers == Callers \cup {PingTask}
Procs == {Reader, Pinger, PingTask} \cup Callers \cup Tasks

VARIABLES
    closed,         \* c.closed
    awaiting,       \* c.awaiting: [isNil, map], map from msgID to channel
    nextId,         \* c.nextId
    peerLatency,    \* c.peerLatency
    indexSent,      \* c.indexSent: [isNil, map], map from name to modified
    mu,             \* the holder of c.RWMutex's write lock, or NoProc
    mwErr,          \* c.mwriter.err is set
    wbroken,        \* the transport's writer fails from now on
    wire,           \* the chunks written to the writer, in order
    chans,          \* every reply channel made so far: [st, sent, closers]
    pc,             \* each goroutine's position
    loc,            \* each goroutine's locals
    recvLog,        \* the calls made on c.receiver, in order
    inCount,        \* inbound frames read so far
    ntasks,         \* response goroutines started so far
    ncalls,         \* application calls made so far
    idle,           \* time.Since(c.lastReceive) > pingIdleTime
    nidle,          \* the times the idle threshold has passed so far
    latCh,          \* pingerLoop's rc, a channel with a buffer of one
    budget,         \* the environment events this run may hold
    crashed         \* the panic that ended the program, or "none"

vars == <<closed, awaiting, nextId, peerLatency, indexSent, mu, mwErr, wbroken,
          wire, chans, pc, loc, recvLog, inCount, ntasks, ncalls, idle, nidle, latCh,
          budget, crashed>>

\* ------------------------------------------------------------------ maps
EmptyMap == [x \in {} |-> 0]
MapPut(m, k, v) == [x \in (DOMAIN m) \cup {k} |-> IF x = k THEN v ELSE m[x]]
MapDel(m, k) == [x \in (DOMAIN m) \ {k} |-> m[x]]
NilMap == [isNil |-> TRUE, map |-> EmptyMap]
MakeMap == [isNil |-> FALSE, map |-> EmptyMap]

\* The locals of a goroutine that is not running.
Loc0 == [ret |-> "", op |-> "", id |-> -1, ch |-> 0, res |-> "", val |-> "",
         from |-> -1, files |-> <<>>, arg |-> <<>>, name |-> "", ver |-> 0,
         type |-> -1, lat |-> 0]

InitWith(b) ==
    /\ budget = b
    /\ closed = FALSE
    /\ awaiting = MakeMap
    /\ nextId = 0
    /\ peerLatency = 0
    /\ indexSent = NilMap
    /\ mu = NoProc
    /\ mwErr = FALSE
    /\ wbroken = FALSE
    /\ wire = <<>>
    /\ chans = <<>>
    /\ pc = [p \in Procs |->
                IF p \in {Reader, Pinger} THEN "top" ELSE "idle"]
    /\ loc = [p \in Procs |-> Loc0]
    /\ recvLog = <<>>
    /\ inCount = 0
    /\ ntasks = 0
    /\ ncalls = 0
    /\ idle = FALSE
    /\ nidle = 0
    /\ latCh = <<>>
    /\ crashed = "none"

Init == InitWith(MaxEvents)

\* What the environment has done so far: the application's calls, the
\* peer's frames, the transport's failure, the idle threshold passing.
Events == ncalls + inCount + nidle + (IF wbroken THEN 1 ELSE 0)
MayHappen == Events < budget

\* ------------------------------------------------------------ the writer
\* A chunk of a frame: its header, or its body.
Hdr(p, type, id) ==
    [by |-> p, part |-> "hdr", type |-> type, id |-> id, data |-> "", files |-> <<>>]
Body(p, type, id, data, files) ==
    [by |-> p, part |-> "body", type |-> type, id |-> id, data |-> data, files |-> files]

\* marshalWriter: a write fails once the transport fails, the first failure
\* is latched in err, and a write after it is a no-op.
WriteFails == mwErr \/ wbroken
WireAfter(chunk) == IF WriteFails THEN wire ELSE Append(wire, chunk)
\* A flush that reports no error; the property of failed writes has to tell
\* it from the code's.
FlushNeverFails == FALSE

\* c.flush(): the flate writer's Flush fails once the transport fails.
FlushFails == wbroken

\* ---------------------------------------------------------------- close
\* c.close() up to its Unlock: a no-op when closed, else it sets closed,
\* closes every pending reply channel and drops the table.  Closing a channel
\* that is closed already panics.
CloseChans(ids) ==
    [i \in DOMAIN chans |->
        IF i \in ids THEN [chans[i] EXCEPT !.st = "closed",
                                           !.closers = chans[i].closers \cup {"close"}]
        ELSE chans[i]]

AwaitingChans == {awaiting.map[k] : k \in DOMAIN awaiting.map}

\* close() without its closed check.
AlreadyClosedNever == FALSE
\* Line 209: close() finds the connection closed.
AlreadyClosed == closed

CloseLocked(p) ==
    /\ pc[p] = "close1"
    /\ mu = NoProc
    /\ IF AlreadyClosed
       THEN /\ pc' = [pc EXCEPT ![p] = loc[p].ret]
            /\ UNCHANGED <<closed, awaiting, chans, crashed, mu>>
       ELSE IF \E i \in AwaitingChans : chans[i].st = "closed"
       THEN /\ crashed' = "close of closed channel"
            /\ closed' = TRUE
            /\ mu' = p
            /\ UNCHANGED <<awaiting, chans, pc>>
       ELSE /\ closed' = TRUE
            /\ chans' = CloseChans(AwaitingChans)
            /\ awaiting' = NilMap
            /\ pc' = [pc EXCEPT ![p] = "close2"]
            /\ UNCHANGED <<crashed, mu>>
    /\ UNCHANGED <<nextId, peerLatency, indexSent, mwErr, wbroken, wire, loc,
                   recvLog, inCount, ntasks, ncalls, idle, nidle, latCh, budget>>

\* c.receiver.Close(c.ID), outside the lock.
CloseNotify(p) ==
    /\ pc[p] = "close2"
    /\ recvLog' = Append(recvLog, [call |-> "Close", type |-> 0, files |-> <<>>, name |-> ""])
    /\ pc' = [pc EXCEPT ![p] = loc[p].ret]
    /\ UNCHANGED <<closed, awaiting, nextId, peerLatency, indexSent, mu, mwErr,
                   wbroken, wire, chans, loc, inCount, ntasks, ncalls, idle,
                   nidle, latCh, budget, crashed>>

\* A goroutine that calls c.close() and goes on at ret after it.
CallClose(p, ret) == [loc[p] EXCEPT !.ret = ret]

\* isClosed() that never reports the connection closed.
IsClosedNever == FALSE
\* Lines 223-227: isClosed(), c.closed read under the read lock.
IsClosed == closed

\* ---------------------------------------------------------------- callers
\* Where a goroutine goes when its call returns.
RetPc(p) == IF p = PingTask THEN "pk_ret" ELSE "idle"

NewChan == [st |-> "open", sent |-> FALSE, closers |-> {}]

\* Request, line 142: the call starts and reads closed under the read lock.
RequestCall(c, name) ==
    /\ pc[c] = "idle"
    /\ MayHappen
    /\ mu = NoProc
    /\ ncalls' = ncalls + 1
    /\ IF IsClosed
       THEN /\ loc' = [loc EXCEPT ![c] = [Loc0 EXCEPT !.op = "Request", !.name = name,
                                                      !.res = "closed"]]
            /\ pc' = pc
       ELSE /\ loc' = [loc EXCEPT ![c] = [Loc0 EXCEPT !.op = "Request", !.name = name]]
            /\ pc' = [pc EXCEPT ![c] = "rq_lock"]
    /\ UNCHANGED <<closed, awaiting, nextId, peerLatency, indexSent, mu, mwErr,
                   wbroken, wire, chans, recvLog, inCount, ntasks, idle, nidle, latCh, budget,
                   crashed>>

\* Lines 145-148 and 175-179: Lock, make the channel, register it under
\* nextId (a panic when close() has set the table to nil), write the header.
Register(c, type, next) ==
    /\ mu = NoProc
    /\ IF awaiting.isNil
       THEN /\ crashed' = "assignment to entry in nil map"
            /\ mu' = c
            /\ UNCHANGED <<awaiting, chans, loc, wire, mwErr, pc>>
       ELSE /\ chans' = Append(chans, NewChan)
            /\ awaiting' = [awaiting EXCEPT !.map = MapPut(awaiting.map, nextId, Len(chans) + 1)]
            /\ loc' = [loc EXCEPT ![c].id = nextId, ![c].ch = Len(chans) + 1]
            /\ wire' = WireAfter(Hdr(c, type, nextId))
            /\ mwErr' = WriteFails
            /\ mu' = c
            /\ pc' = [pc EXCEPT ![c] = next]
            /\ UNCHANGED crashed
    /\ UNCHANGED <<closed, nextId, peerLatency, indexSent, wbroken, recvLog,
                   inCount, ntasks, ncalls, idle, nidle, latCh, budget>>

RequestLock(c) ==
    /\ pc[c] = "rq_lock"
    /\ Register(c, messageTypeRequest, "rq_body")

\* Lines 149-162: write the body; on a writer error or a flush error Unlock,
\* close and return the error; else advance nextId and Unlock.
RequestWrite(c) ==
    /\ pc[c] = "rq_body"
    /\ wire' = WireAfter(Body(c, messageTypeRequest, loc[c].id, loc[c].name, <<>>))
    /\ mwErr' = WriteFails
    /\ mu' = NoProc
    /\ IF WriteFails \/ FlushFails
       THEN /\ loc' = [loc EXCEPT ![c] = [CallClose(c, RetPc(c)) EXCEPT !.res = "err"]]
            /\ pc' = [pc EXCEPT ![c] = "close1"]
            /\ UNCHANGED nextId
       ELSE /\ nextId' = (nextId + 1) % IdMod
            /\ pc' = [pc EXCEPT ![c] = "wait"]
            /\ UNCHANGED loc
    /\ UNCHANGED <<closed, awaiting, peerLatency, indexSent, wbroken, chans,
                   recvLog, inCount, ntasks, ncalls, idle, nidle, latCh, budget, crashed>>

\* Lines 164-168 and 189-190: the receive from rc finds the channel closed.
\* (A payload is handed over in the reader's step, ReaderSend.)
WaitClosed(c) ==
    /\ pc[c] = "wait"
    /\ chans[loc[c].ch].st = "closed"
    /\ loc' = [loc EXCEPT ![c].res = "closed"]
    /\ pc' = [pc EXCEPT ![c] = RetPc(c)]
    /\ UNCHANGED <<closed, awaiting, nextId, peerLatency, indexSent, mu, mwErr,
                   wbroken, wire, chans, recvLog, inCount, ntasks, ncalls, idle,
                   nidle, latCh, budget, crashed>>

\* Ping, line 172: the call starts (an application's, or the keep-alive
\* goroutine started by pingerLoop) and reads closed under the read lock.
PingCall(c) ==
    /\ \/ c \in Callers /\ pc[c] = "idle" /\ MayHappen /\ ncalls' = ncalls + 1
       \/ c = PingTask /\ pc[c] = "start" /\ ncalls' = ncalls
    /\ mu = NoProc
    /\ IF IsClosed
       THEN /\ loc' = [loc EXCEPT ![c] = [Loc0 EXCEPT !.op = "Ping", !.res = "closed"]]
            /\ pc' = [pc EXCEPT ![c] = RetPc(c)]
       ELSE /\ loc' = [loc EXCEPT ![c] = [Loc0 EXCEPT !.op = "Ping"]]
            /\ pc' = [pc EXCEPT ![c] = "pg_lock"]
    /\ UNCHANGED <<closed, awaiting, nextId, peerLatency, indexSent, mu, mwErr,
                   wbroken, wire, chans, recvLog, inCount, ntasks, idle, nidle, latCh, budget,
                   crashed>>

PingLock(c) ==
    /\ pc[c] = "pg_lock"
    /\ Register(c, messageTypePing, "pg_flush")

\* Lines 180-187: flush; on an error Unlock, close and return false; else
\* advance nextId and Unlock.
PingFlush(c) ==
    /\ pc[c] = "pg_flush"
    /\ mu' = NoProc
    /\ IF FlushFails \/ mwErr
       THEN /\ loc' = [loc EXCEPT ![c] = [CallClose(c, RetPc(c)) EXCEPT !.res = "err"]]
            /\ pc' = [pc EXCEPT ![c] = "close1"]
            /\ UNCHANGED nextId
       ELSE /\ nextId' = (nextId + 1) % IdMod
            /\ pc' = [pc EXCEPT ![c] = "wait"]
            /\ UNCHANGED loc
    /\ UNCHANGED <<closed, awaiting, peerLatency, indexSent, mwErr, wbroken, wire,
                   chans, recvLog, inCount, ntasks, ncalls, idle, nidle, latCh, budget, crashed>>

\* ----------------------------------------------------------------- Index
\* A loop that tests the name alone and never the Modified value; the delta
\* property has to tell it from the loop of the code.
RECURSIVE IndexDiffByName(_, _, _)
IndexDiffByName(idx, sent, diff) ==
    IF idx = <<>> THEN [sent |-> sent, diff |-> diff]
    ELSE LET f == Head(idx) IN
         IF f.Name \notin DOMAIN sent
         THEN IndexDiffByName(Tail(idx), MapPut(sent, f.Name, f.Modified), Append(diff, f))
         ELSE IndexDiffByName(Tail(idx), sent, diff)

\* Lines 119-126: the loop over idx, which appends to diff each entry whose
\* name is not in sent or whose Modified differs, and records it in sent.
RECURSIVE IndexDiff(_, _, _)
IndexDiff(idx, sent, diff) ==
    IF idx = <<>> THEN [sent |-> sent, diff |-> diff]
    ELSE LET f == Head(idx) IN
         IF f.Name \notin DOMAIN sent \/ f.Modified # sent[f.Name]
         THEN IndexDiff(Tail(idx), MapPut(sent, f.Name, f.Modified), Append(diff, f))
         ELSE IndexDiff(Tail(idx), sent, diff)

\* A first index that keeps the first entry of a name; the property of the
\* record of sent entries has to tell it from the code's.
RECURSIVE IndexAllFirstWins(_, _)
IndexAllFirstWins(idx, sent) ==
    IF idx = <<>> THEN sent
    ELSE IF Head(idx).Name \in DOMAIN sent THEN IndexAllFirstWins(Tail(idx), sent)
    ELSE IndexAllFirstWins(Tail(idx), MapPut(sent, Head(idx).Name, Head(idx).Modified))

\* Lines 112-115: the first index records every entry, the last one of a
\* name winning.
RECURSIVE IndexAll(_, _)
IndexAll(idx, sent) ==
    IF idx = <<>> THEN sent
    ELSE IndexAll(Tail(idx), MapPut(sent, Head(idx).Name, Head(idx).Modified))

\* A test that takes an empty record of sent entries for no record at all;
\* the property of the first index frame has to tell it from the code's.
IsFirstIndexOrEmpty == indexSent.isNil \/ indexSent.map = EmptyMap

\* Line 108: this is the first index when c.indexSent is nil.
IsFirstIndex == indexSent.isNil

\* The lists an application hands to Index.
RECURSIVE ListsUpTo(_)
ListsUpTo(n) ==
    IF n = 0 THEN {<<>>}
    ELSE LET shorter == ListsUpTo(n - 1) IN
         shorter \cup {Append(l, f) : l \in {s \in shorter : Len(s) = n - 1}, f \in FileInfo}
IndexLists == ListsUpTo(MaxIdxLen)
\* The lists of the runs in which the other operations run too.
FewIndexLists == {<<[Name |-> "a", Modified |-> 1]>>}

\* Lines 105-129: Lock, choose the type and the entries to send, update
\* indexSent, write the header.
IndexBegin(c, idx) ==
    /\ pc[c] = "idle"
    /\ MayHappen
    /\ mu = NoProc
    /\ ncalls' = ncalls + 1
    /\ mu' = c
    /\ LET first == IsFirstIndex
           msgType == IF first THEN messageTypeIndex ELSE messageTypeIndexUpdate
           d == IndexDiff(idx, indexSent.map, <<>>)
           send == IF first THEN idx ELSE d.diff
       IN /\ indexSent' = [isNil |-> FALSE,
                           map |-> IF first THEN IndexAll(idx, EmptyMap) ELSE d.sent]
          /\ loc' = [loc EXCEPT ![c] = [Loc0 EXCEPT !.op = "Index", !.arg = idx,
                                                    !.files = send, !.type = msgType,
                                                    !.id = nextId]]
          /\ wire' = WireAfter(Hdr(c, msgType, nextId))
    /\ mwErr' = WriteFails
    /\ pc' = [pc EXCEPT ![c] = "ix_body"]
    /\ UNCHANGED <<closed, awaiting, nextId, peerLatency, wbroken, chans, recvLog,
                   inCount, ntasks, idle, nidle, latCh, budget, crashed>>

\* Lines 130-137: write the entries, flush, advance nextId, Unlock; close on
\* an error.
IndexEnd(c) ==
    /\ pc[c] = "ix_body"
    /\ wire' = WireAfter(Body(c, loc[c].type, loc[c].id, "", loc[c].files))
    /\ mwErr' = WriteFails
    /\ nextId' = (nextId + 1) % IdMod
    /\ mu' = NoProc
    /\ IF FlushFails \/ WriteFails
       THEN /\ loc' = [loc EXCEPT ![c] = [CallClose(c, "idle") EXCEPT !.res = "err"]]
            /\ pc' = [pc EXCEPT ![c] = "close1"]
       ELSE /\ loc' = [loc EXCEPT ![c].res = "ok"]
            /\ pc' = [pc EXCEPT ![c] = "idle"]
    /\ UNCHANGED <<closed, awaiting, peerLatency, indexSent, wbroken, chans,
                   recvLog, inCount, ntasks, ncalls, idle, nidle, latCh, budget, crashed>>

\* A writer that does not wait for the lock; the property of contiguous
\* frames has to tell it from the code's.
MayWriteAlways == TRUE

\* Whether a goroutine that writes a frame may take the write lock.
MayWrite == mu = NoProc

\* ---------------------------------------------------------------- reader
RecvCall(call, files, name) == [call |-> call, files |-> files, name |-> name]

\* What the reader may find on the transport: a header that cannot be read,
\* or a header (version, msgID, msgType) with its body, which may fail to
\* decode.
PeerIds == 0..MaxPeerId
Frame(ver, id, type, files, name, data, bodyErr) ==
    [hdrErr |-> FALSE, ver |-> ver, id |-> id, type |-> type, files |-> files,
     name |-> name, data |-> data, bodyErr |-> bodyErr]
HdrErrFrame == [Frame(0, 0, messageTypeIndex, <<>>, "", "", FALSE) EXCEPT !.hdrErr = TRUE]
BadVersionFrame == Frame(1, 0, messageTypeIndex, <<>>, "", "", FALSE)
BadTypeFrames == {Frame(0, 0, t, <<>>, "", "", FALSE) : t \in BadTypes}
BodyErrFrames(types) == {Frame(0, 0, t, <<>>, "", "", TRUE) : t \in types}
IndexFrames(types, lists) == {Frame(0, 0, t, l, "", "", FALSE) : t \in types, l \in lists}
RequestFrames(ids, names) ==
    {Frame(0, i, messageTypeRequest, <<>>, n, "", FALSE) : i \in ids, n \in names}
ResponseFrames(ids, datas) ==
    {Frame(0, i, messageTypeResponse, <<>>, "", d, FALSE) : i \in ids, d \in datas}
PingFrames(ids) == {Frame(0, i, messageTypePing, <<>>, "", "", FALSE) : i \in ids}
PongFrames(ids) == {Frame(0, i, messageTypePong, <<>>, "", "", FALSE) : i \in ids}

\* The frames of the runs in which every operation runs.
InFrames ==
    {HdrErrFrame, BadVersionFrame} \cup BadTypeFrames
    \cup BodyErrFrames({messageTypeRequest})
    \cup IndexFrames({messageTypeIndex}, {<<[Name |-> "a", Modified |-> 1]>>})
    \cup IndexFrames({messageTypeIndexUpdate}, {<<>>})
    \cup RequestFrames({0}, {"a"})
    \cup ResponseFrames(PeerIds, {"x"})
    \cup PingFrames({0})
    \cup PongFrames(PeerIds)

\* Line 230: the loop condition, isClosed().
ReaderTop ==
    /\ pc[Reader] = "top"
    /\ mu = NoProc
    /\ pc' = [pc EXCEPT ![Reader] = IF IsClosed THEN "done" ELSE "read"]
    /\ UNCHANGED <<closed, awaiting, nextId, peerLatency, indexSent, mu, mwErr,
                   wbroken, wire, chans, loc, recvLog, inCount, ntasks, ncalls,
                   idle, nidle, latCh, budget, crashed>>

\* A reader that takes every version; the property of bad headers has to
\* tell it from the code's.
VersionAlwaysOK(f) == TRUE

\* The version check of line 236.
VersionOK(f) == f.ver = 0

\* A switch that passes over an index frame with an empty list; the property
\* of delivered indexes has to tell it from the code's.
DispatchSkipEmpty(f) ==
    CASE f.type \in {messageTypeIndex, messageTypeIndexUpdate} ->
            IF f.bodyErr THEN "close" ELSE IF f.files = <<>> THEN "top" ELSE "deliver"
      [] f.type = messageTypeRequest -> "rq_chk"
      [] f.type = messageTypeResponse -> IF f.bodyErr THEN "close" ELSE "lookup"
      [] f.type = messageTypePing -> "pong1"
      [] f.type = messageTypePong -> "lookup"
      [] OTHER -> "close"

\* Where the switch of line 246 sends the reader for a frame of a known
\* type, and "close" for the default case.
Dispatch(f) ==
    CASE f.type \in {messageTypeIndex, messageTypeIndexUpdate} ->
            IF f.bodyErr THEN "close" ELSE "deliver"
      [] f.type = messageTypeRequest -> "rq_chk"
      [] f.type = messageTypeResponse -> IF f.bodyErr THEN "close" ELSE "lookup"
      [] f.type = messageTypePing -> "pong1"
      [] f.type = messageTypePong -> "lookup"
      [] OTHER -> "close"

\* Lines 231-273 and 313-322: read a header; close and leave the loop on a
\* read error or an unknown version; else set lastReceive and dispatch on the
\* type: deliver an index to the receiver, start the goroutine of a request,
\* go on to look up a response or a pong or to answer a ping, close on a
\* body that cannot be read or on an unknown type.
ReaderRead(f) ==
    /\ pc[Reader] = "read"
    /\ MayHappen
    /\ inCount' = inCount + 1
    /\ f.type = messageTypeRequest /\ ~f.bodyErr => ntasks < MaxTasks
    /\ LET rl == [Loc0 EXCEPT !.ver = f.ver, !.type = f.type, !.id = f.id,
                              !.val = f.data, !.files = f.files, !.name = f.name,
                              !.res = IF f.hdrErr \/ f.bodyErr THEN "err" ELSE ""]
           t == <<"task", ntasks + 1>>
       IN IF f.hdrErr \/ ~VersionOK(f)
          THEN /\ pc' = [pc EXCEPT ![Reader] = "close1"]
               /\ loc' = [loc EXCEPT ![Reader] = [rl EXCEPT !.ret = "done"]]
               /\ UNCHANGED <<recvLog, ntasks, idle>>
          ELSE /\ idle' = FALSE
               /\ LET d == Dispatch(f) IN
                  CASE d = "deliver" ->
                        /\ recvLog' = Append(recvLog,
                              RecvCall(IF f.type = messageTypeIndex THEN "Index"
                                       ELSE "IndexUpdate", f.files, ""))
                        /\ pc' = [pc EXCEPT ![Reader] = "top"]
                        /\ loc' = [loc EXCEPT ![Reader] = rl]
                        /\ UNCHANGED ntasks
                    [] d = "close" ->
                        /\ pc' = [pc EXCEPT ![Reader] = "close1"]
                        /\ loc' = [loc EXCEPT ![Reader] = [rl EXCEPT !.ret = "top"]]
                        /\ UNCHANGED <<recvLog, ntasks>>
                    [] d = "rq_chk" /\ f.bodyErr ->
                        /\ pc' = [pc EXCEPT ![Reader] = "close1"]
                        /\ loc' = [loc EXCEPT ![Reader] = [rl EXCEPT !.ret = "rq_chk"]]
                        /\ UNCHANGED <<recvLog, ntasks>>
                    [] d = "rq_chk" /\ ~f.bodyErr ->
                        /\ ntasks' = ntasks + 1
                        /\ pc' = [pc EXCEPT ![Reader] = "rq_chk", ![t] = "t_req"]
                        /\ loc' = [loc EXCEPT ![Reader] = rl,
                                              ![t] = [Loc0 EXCEPT !.id = f.id, !.name = f.name]]
                        /\ UNCHANGED recvLog
                    [] OTHER ->
                        /\ pc' = [pc EXCEPT ![Reader] = d]
                        /\ loc' = [loc EXCEPT ![Reader] = rl]
                        /\ UNCHANGED <<recvLog, ntasks>>
    /\ UNCHANGED <<closed, awaiting, nextId, peerLatency, indexSent, mu, mwErr,
                   wbroken, wire, chans, ncalls, nidle, latCh, budget, crashed>>

\* A reader that calls the receiver's Request itself and goes on when it has
\* returned; the property of the reader's progress has to tell it from the
\* code's.
ReaderAfterRequestInline ==
    /\ pc[Reader] = "rq_chk"
    /\ loc[Reader].res = "err" \/ pc[<<"task", ntasks>>] \notin {"t_req", "t_in"}
    /\ IF loc[Reader].res = "err" \/ mwErr
       THEN /\ pc' = [pc EXCEPT ![Reader] = "close1"]
            /\ loc' = [loc EXCEPT ![Reader].ret = "top"]
       ELSE /\ pc' = [pc EXCEPT ![Reader] = "top"]
            /\ UNCHANGED loc
    /\ UNCHANGED <<closed, awaiting, nextId, peerLatency, indexSent, mu, mwErr,
                   wbroken, wire, chans, recvLog, inCount, ntasks, ncalls, idle,
                   nidle, latCh, budget, crashed>>

\* Line 265, after processRequest: close on a reader or writer error.
ReaderAfterRequest ==
    /\ pc[Reader] = "rq_chk"
    /\ IF loc[Reader].res = "err" \/ mwErr
       THEN /\ pc' = [pc EXCEPT ![Reader] = "close1"]
            /\ loc' = [loc EXCEPT ![Reader].ret = "top"]
       ELSE /\ pc' = [pc EXCEPT ![Reader] = "top"]
            /\ UNCHANGED loc
    /\ UNCHANGED <<closed, awaiting, nextId, peerLatency, indexSent, mu, mwErr,
                   wbroken, wire, chans, recvLog, inCount, ntasks, ncalls, idle,
                   nidle, latCh, budget, crashed>>

\* A reader that looks up the msgID allocated last, not the header's.
LookupLastId == (nextId + IdMod - 1) % IdMod
\* The msgID the reader looks up: the header's.
LookupId == loc[Reader].id

\* A reader that closes the connection on a reply nobody waits for; the
\* property of dropped replies has to tell it from the code's.
ReaderLookupStrict ==
    /\ pc[Reader] = "lookup"
    /\ mu = NoProc
    /\ IF ~awaiting.isNil /\ LookupId \in DOMAIN awaiting.map
       THEN /\ loc' = [loc EXCEPT ![Reader].ch = awaiting.map[LookupId]]
            /\ pc' = [pc EXCEPT ![Reader] = "send"]
       ELSE /\ pc' = [pc EXCEPT ![Reader] = "close1"]
            /\ loc' = [loc EXCEPT ![Reader].ret = "top"]
    /\ UNCHANGED <<closed, awaiting, nextId, peerLatency, indexSent, mu, mwErr,
                   wbroken, wire, chans, recvLog, inCount, ntasks, ncalls, idle,
                   nidle, latCh, budget, crashed>>

\* Lines 275-277 and 299-301: look the msgID up under the read lock.
ReaderLookup ==
    /\ pc[Reader] = "lookup"
    /\ mu = NoProc
    /\ IF ~awaiting.isNil /\ LookupId \in DOMAIN awaiting.map
       THEN /\ loc' = [loc EXCEPT ![Reader].ch = awaiting.map[LookupId]]
            /\ pc' = [pc EXCEPT ![Reader] = "send"]
       ELSE /\ pc' = [pc EXCEPT ![Reader] = "top"]
            /\ UNCHANGED loc
    /\ UNCHANGED <<closed, awaiting, nextId, peerLatency, indexSent, mu, mwErr,
                   wbroken, wire, chans, recvLog, inCount, ntasks, ncalls, idle,
                   nidle, latCh, budget, crashed>>

\* Lines 280 and 304: the send on rc.  It panics on a closed channel, and it
\* waits for the caller to receive: the two meet in this step.
ReaderSend ==
    /\ pc[Reader] = "send"
    /\ LET ch == loc[Reader].ch IN
       IF chans[ch].st = "closed"
       THEN /\ crashed' = "send on closed channel"
            /\ UNCHANGED <<pc, loc, chans>>
       ELSE \E c \in PingCallers :
            /\ pc[c] = "wait"
            /\ loc[c].ch = ch
            /\ loc' = [loc EXCEPT ![c].res = "ok", ![c].val = loc[Reader].val,
                                  ![c].from = loc[Reader].id]
            /\ pc' = [pc EXCEPT ![c] = RetPc(c), ![Reader] = "closech"]
            /\ chans' = [chans EXCEPT ![ch].sent = TRUE]
            /\ UNCHANGED crashed
    /\ UNCHANGED <<closed, awaiting, nextId, peerLatency, indexSent, mu, mwErr,
                   wbroken, wire, recvLog, inCount, ntasks, ncalls, idle, nidle, latCh, budget>>

\* Lines 281 and 305: close(rc), a panic on a closed channel.
ReaderCloseChan ==
    /\ pc[Reader] = "closech"
    /\ LET ch == loc[Reader].ch IN
       IF chans[ch].st = "closed"
       THEN /\ crashed' = "close of closed channel"
            /\ UNCHANGED <<pc, chans>>
       ELSE /\ chans' = [chans EXCEPT ![ch].st = "closed",
                                      ![ch].closers = chans[ch].closers \cup {"reader"}]
            /\ pc' = [pc EXCEPT ![Reader] = "del"]
            /\ UNCHANGED crashed
    /\ UNCHANGED <<closed, awaiting, nextId, peerLatency, indexSent, mu, mwErr,
                   wbroken, wire, loc, recvLog, inCount, ntasks, ncalls, idle, nidle, latCh, budget>>

\* Lines 283-285 and 307-309: delete the entry under the lock (a no-op on a
\* nil map).
ReaderDelete ==
    /\ pc[Reader] = "del"
    /\ mu = NoProc
    /\ awaiting' = IF awaiting.isNil THEN awaiting
                   ELSE [awaiting EXCEPT !.map = MapDel(awaiting.map, loc[Reader].id)]
    /\ pc' = [pc EXCEPT ![Reader] = "top"]
    /\ UNCHANGED <<closed, nextId, peerLatency, indexSent, mu, mwErr, wbroken,
                   wire, chans, loc, recvLog, inCount, ntasks, ncalls, idle, nidle, latCh, budget,
                   crashed>>

\* Lines 290-291: Lock and write the Pong header.
ReaderPongLock ==
    /\ pc[Reader] = "pong1"
    /\ MayWrite
    /\ mu' = Reader
    /\ wire' = WireAfter(Hdr(Reader, messageTypePong, loc[Reader].id))
    /\ mwErr' = WriteFails
    /\ pc' = [pc EXCEPT ![Reader] = "pong2"]
    /\ UNCHANGED <<closed, awaiting, nextId, peerLatency, indexSent, wbroken,
                   chans, loc, recvLog, inCount, ntasks, ncalls, idle, nidle, latCh, budget, crashed>>

\* Lines 292-296: flush, Unlock, close on an error.
ReaderPongFlush ==
    /\ pc[Reader] = "pong2"
    /\ mu' = NoProc
    /\ IF FlushFails \/ mwErr
       THEN /\ pc' = [pc EXCEPT ![Reader] = "close1"]
            /\ loc' = [loc EXCEPT ![Reader].ret = "top"]
       ELSE /\ pc' = [pc EXCEPT ![Reader] = "top"]
            /\ UNCHANGED loc
    /\ UNCHANGED <<closed, awaiting, nextId, peerLatency, indexSent, mwErr,
                   wbroken, wire, chans, recvLog, inCount, ntasks, ncalls, idle,
                   nidle, latCh, budget, crashed>>

\* ------------------------------------------------------- response tasks
\* The msgID a response goroutine puts in its header: the request's.
ResponseId(t) == loc[t].id

\* Line 325: the goroutine calls c.receiver.Request.
TaskRequest(t) ==
    /\ pc[t] = "t_req"
    /\ recvLog' = Append(recvLog, RecvCall("Request", <<>>, loc[t].name))
    /\ pc' = [pc EXCEPT ![t] = "t_in"]
    /\ UNCHANGED <<closed, awaiting, nextId, peerLatency, indexSent, mu, mwErr,
                   wbroken, wire, chans, loc, inCount, ntasks, ncalls, idle, nidle, latCh,
                   budget, crashed>>

\* Line 325: c.receiver.Request returns the block.
TaskReturn(t) ==
    /\ pc[t] = "t_in"
    /\ loc' = [loc EXCEPT ![t].val = Block(loc[t].name)]
    /\ pc' = [pc EXCEPT ![t] = "t_lock"]
    /\ UNCHANGED <<closed, awaiting, nextId, peerLatency, indexSent, mu, mwErr,
                   wbroken, wire, chans, recvLog, inCount, ntasks, ncalls, idle, nidle,
                   latCh, budget, crashed>>

\* Lines 326-327: Lock and write the Response header.
TaskLock(t) ==
    /\ pc[t] = "t_lock"
    /\ MayWrite
    /\ mu' = t
    /\ wire' = WireAfter(Hdr(t, messageTypeResponse, ResponseId(t)))
    /\ mwErr' = WriteFails
    /\ pc' = [pc EXCEPT ![t] = "t_body"]
    /\ UNCHANGED <<closed, awaiting, nextId, peerLatency, indexSent, wbroken,
                   chans, loc, recvLog, inCount, ntasks, ncalls, idle, nidle, latCh, budget, crashed>>

\* Lines 328-334: write the data, flush, Unlock, close on an error.
TaskWrite(t) ==
    /\ pc[t] = "t_body"
    /\ wire' = WireAfter(Body(t, messageTypeResponse, ResponseId(t), loc[t].val, <<>>))
    /\ mwErr' = WriteFails
    /\ mu' = NoProc
    /\ IF WriteFails \/ FlushFails
       THEN /\ pc' = [pc EXCEPT ![t] = "close1"]
            /\ loc' = [loc EXCEPT ![t].ret = "t_done"]
       ELSE /\ pc' = [pc EXCEPT ![t] = "t_done"]
            /\ UNCHANGED loc
    /\ UNCHANGED <<closed, awaiting, nextId, peerLatency, indexSent, wbroken,
                   chans, recvLog, inCount, ntasks, ncalls, idle, nidle, latCh, budget, crashed>>

\* ------------------------------------------------------------ keep-alive
\* Line 346: the idle test on lastReceive.
IsIdle == idle

\* Lines 341-352 and 362: the loop condition isClosed(), then the read of
\* lastReceive: when idle, start the goroutine that calls Ping and go to the
\* select; else sleep and loop (the loop turns in place).
PingerCheck ==
    /\ pc[Pinger] = "top"
    /\ mu = NoProc
    /\ IF IsClosed
       THEN pc' = [pc EXCEPT ![Pinger] = "done"]
       ELSE IF IsIdle
       THEN /\ pc[PingTask] = "idle"
            /\ pc' = [pc EXCEPT ![Pinger] = "select", ![PingTask] = "start"]
       ELSE pc' = pc
    /\ UNCHANGED <<closed, awaiting, nextId, peerLatency, indexSent, mu, mwErr,
                   wbroken, wire, chans, loc, recvLog, inCount, ntasks, ncalls,
                   idle, nidle, latCh, budget, crashed>>

\* Lines 348-351: Ping has returned; send the latency on rc when ok.
PingTaskReturn(lat) ==
    /\ pc[PingTask] = "pk_ret"
    /\ IF loc[PingTask].res = "ok"
       THEN /\ Len(latCh) < 1
            /\ latCh' = Append(latCh, lat)
       ELSE /\ lat = CHOOSE l \in Latencies : TRUE
            /\ UNCHANGED latCh
    /\ pc' = [pc EXCEPT ![PingTask] = "idle"]
    /\ UNCHANGED <<closed, awaiting, nextId, peerLatency, indexSent, mu, mwErr,
                   wbroken, wire, chans, loc, recvLog, inCount, ntasks, ncalls,
                   idle, nidle, budget, crashed>>

\* Line 354: the select receives a latency from rc.
PingerReceive ==
    /\ pc[Pinger] = "select"
    /\ latCh # <<>>
    /\ loc' = [loc EXCEPT ![Pinger].lat = Head(latCh)]
    /\ latCh' = Tail(latCh)
    /\ pc' = [pc EXCEPT ![Pinger] = "lat"]
    /\ UNCHANGED <<closed, awaiting, nextId, peerLatency, indexSent, mu, mwErr,
                   wbroken, wire, chans, recvLog, inCount, ntasks, ncalls, idle,
                   nidle, budget, crashed>>

\* A latency that forgets the old value; the keep-alive property has to tell
\* it from the code's.
SmoothLast(old, lat) == lat

\* Line 356: the smoothed latency.
Smooth(old, lat) == (old + lat) \div 2

\* Lines 355-357 and 362: update peerLatency under the lock, sleep, loop.
PingerUpdate ==
    /\ pc[Pinger] = "lat"
    /\ mu = NoProc
    /\ peerLatency' = Smooth(peerLatency, loc[Pinger].lat)
    /\ pc' = [pc EXCEPT ![Pinger] = "top"]
    /\ UNCHANGED <<closed, awaiting, nextId, indexSent, mu, mwErr, wbroken, wire,
                   chans, loc, recvLog, inCount, ntasks, ncalls, idle, nidle, latCh, budget,
                   crashed>>

\* Lines 358-359: the select's timer fires after pingTimeout: close.
PingerTimeout ==
    /\ pc[Pinger] = "select"
    /\ pc' = [pc EXCEPT ![Pinger] = "close1"]
    /\ loc' = [loc EXCEPT ![Pinger].ret = "top"]
    /\ UNCHANGED <<closed, awaiting, nextId, peerLatency, indexSent, mu, mwErr,
                   wbroken, wire, chans, recvLog, inCount, ntasks, ncalls, idle,
                   nidle, latCh, budget, crashed>>

\* ----------------------------------------------------------- environment
\* The transport's writer starts to fail.
TransportFails ==
    /\ ~wbroken
    /\ MayHappen
    /\ wbroken' = TRUE
    /\ UNCHANGED <<closed, awaiting, nextId, peerLatency, indexSent, mu, mwErr,
                   wire, chans, pc, loc, recvLog, inCount, ntasks, ncalls, idle,
                   nidle, latCh, budget, crashed>>

\* More than pingIdleTime passes since lastReceive.
IdleElapses ==
    /\ ~idle
    /\ MayHappen
    /\ idle' = TRUE
    /\ nidle' = nidle + 1
    /\ UNCHANGED <<closed, awaiting, nextId, peerLatency, indexSent, mu, mwErr,
                   wbroken, wire, chans, pc, loc, recvLog, inCount, ntasks, ncalls,
                   latCh, budget, crashed>>

\* ------------------------------------------------------- specifications
Running == crashed = "none"

CloseStep == \E p \in Procs : Running /\ (CloseLocked(p) \/ CloseNotify(p))
RequestStep(names) ==
    \E c \in Callers :
        \/ \E n \in names : Running /\ RequestCall(c, n)
        \/ Running /\ RequestLock(c)
        \/ Running /\ RequestWrite(c)
PingStep ==
    \E c \in PingCallers :
        \/ Running /\ PingCall(c)
        \/ Running /\ PingLock(c)
        \/ Running /\ PingFlush(c)
WaitStep == \E c \in PingCallers : Running /\ WaitClosed(c)
IndexStep(lists) ==
    \E c \in Callers :
        \/ \E idx \in lists : Running /\ IndexBegin(c, idx)
        \/ Running /\ IndexEnd(c)
ReaderStep(frames) ==
    \/ Running /\ ReaderTop
    \/ \E f \in frames : Running /\ ReaderRead(f)
    \/ Running /\ ReaderAfterRequest
    \/ Running /\ ReaderLookup
    \/ Running /\ ReaderSend
    \/ Running /\ ReaderCloseChan
    \/ Running /\ ReaderDelete
PongStep ==
    \/ Running /\ ReaderPongLock
    \/ Running /\ ReaderPongFlush
TaskStep ==
    \E t \in Tasks :
        \/ Running /\ TaskRequest(t)
        \/ Running /\ TaskReturn(t)
        \/ Running /\ TaskLock(t)
        \/ Running /\ TaskWrite(t)
PingerStep ==
    \/ Running /\ PingerCheck
    \/ \E lat \in Latencies : Running /\ PingTaskReturn(lat)
    \/ Running /\ PingerReceive
    \/ Running /\ PingerUpdate
    \/ Running /\ PingerTimeout
FailStep == Running /\ TransportFails
IdleStep == Running /\ IdleElapses

\* Every operation, with few inputs each.
Next ==
    \/ CloseStep
    \/ RequestStep({"a"})
    \/ PingStep
    \/ WaitStep
    \/ IndexStep(FewIndexLists)
    \/ ReaderStep(InFrames)
    \/ PongStep
    \/ TaskStep
    \/ PingerStep
    \/ FailStep
    \/ IdleStep

Spec == Init /\ [][Next]_vars

\* The steps the program takes by itself once it can: every goroutine that
\* is not blocked runs in the end.  The application's calls, the peer's
\* frames, the receiver's return from Request, the transport and the clock
\* are not among them.
Progress ==
    \/ CloseStep
    \/ \E c \in Callers : Running /\ (RequestLock(c) \/ RequestWrite(c) \/ IndexEnd(c))
    \/ \E c \in PingCallers : Running /\ (PingLock(c) \/ PingFlush(c))
    \/ Running /\ PingCall(PingTask)
    \/ WaitStep
    \/ Running /\ (ReaderTop \/ ReaderAfterRequest \/ ReaderLookup \/ ReaderSend
                       \/ ReaderCloseChan \/ ReaderDelete)
    \/ PongStep
    \/ \E t \in Tasks : Running /\ (TaskRequest(t) \/ TaskLock(t) \/ TaskWrite(t))
    \/ PingerStep
\* Every operation, with the goroutines scheduled fairly.
SpecLive == Init /\ [][Next]_vars /\ WF_vars(Progress)

\* The runs of Index alone, with every list, on a transport that may fail.
InitIndex == InitWith(MaxIndexEvents)
NextIndex ==
    \/ IndexStep(IndexLists)
    \/ CloseStep
    \/ FailStep
SpecIndex == InitIndex /\ [][NextIndex]_vars

\* The runs of requests and their responses in both directions: the
\* application's Requests, the peer's Requests, and the peer's Responses,
\* until the peer's stream ends.
CorrFrames ==
    {HdrErrFrame}
    \cup RequestFrames(PeerIds, Names)
    \cup ResponseFrames(PeerIds, Datas)
InitCorr == InitWith(MaxCorrEvents)
NextCorr ==
    \/ RequestStep(Names)
    \/ WaitStep
    \/ ReaderStep(CorrFrames)
    \/ TaskStep
    \/ CloseStep
SpecCorr == InitCorr /\ [][NextCorr]_vars

\* The runs around the wrap of nextId.  They start in the state the program
\* is in after caller 1's Request("a") was registered under msgID 0 and
\* written, and caller 2 then made IdMod - 2 calls of Index with an empty
\* list, each written under the next msgID: the Request is still waiting for
\* its reply, and nextId is IdMod - 1.
WrapCaller == <<"caller", 1>>
WrapIndexer == <<"caller", 2>>
WrapIndexType(i) == IF i = 1 THEN messageTypeIndex ELSE messageTypeIndexUpdate
WrapWire ==
    <<Hdr(WrapCaller, messageTypeRequest, 0),
      Body(WrapCaller, messageTypeRequest, 0, "a", <<>>)>>
    \o [k \in 1..(2 * (IdMod - 2)) |->
          LET i == (k + 1) \div 2
          IN IF k % 2 = 1 THEN Hdr(WrapIndexer, WrapIndexType(i), i)
             ELSE Body(WrapIndexer, WrapIndexType(i), i, "", <<>>)]
InitWrap ==
    /\ budget = IdMod - 1 + MaxWrapEvents
    /\ closed = FALSE
    /\ awaiting = [isNil |-> FALSE, map |-> MapPut(EmptyMap, 0, 1)]
    /\ nextId = IdMod - 1
    /\ peerLatency = 0
    /\ indexSent = MakeMap
    /\ mu = NoProc
    /\ mwErr = FALSE
    /\ wbroken = FALSE
    /\ wire = WrapWire
    /\ chans = <<NewChan>>
    /\ pc = [p \in Procs |->
                IF p \in {Reader, Pinger} THEN "top"
                ELSE IF p = WrapCaller THEN "wait" ELSE "idle"]
    /\ loc = [p \in Procs |->
                IF p = WrapCaller
                THEN [Loc0 EXCEPT !.op = "Request", !.name = "a", !.id = 0, !.ch = 1]
                ELSE IF p = WrapIndexer
                THEN [Loc0 EXCEPT !.op = "Index", !.type = messageTypeIndexUpdate,
                                  !.id = IdMod - 2, !.res = "ok"]
                ELSE Loc0]
    /\ recvLog = <<>>
    /\ inCount = 0
    /\ ntasks = 0
    /\ ncalls = IdMod - 1
    /\ idle = FALSE
    /\ nidle = 0
    /\ latCh = <<>>
    /\ crashed = "none"
NextWrap ==
    \/ IndexStep({<<>>})
    \/ RequestStep({"a"})
    \/ \E c \in Callers : Running /\ (PingCall(c) \/ PingLock(c) \/ PingFlush(c))
    \/ Running /\ ReaderTop
    \/ \E f \in ResponseFrames({0}, {"x"}) : Running /\ ReaderRead(f)
    \/ Running /\ (ReaderLookup \/ ReaderSend \/ ReaderCloseChan \/ ReaderDelete)
SpecWrap == InitWrap /\ [][NextWrap]_vars

\* The runs of inbound index frames: the peer sends Index and IndexUpdate
\* frames with every list of up to one entry, frames whose body cannot be
\* read, and headers that cannot be read or have a bad version, while the
\* application's own Index may fail on the transport and close the
\* connection under the reader.
RecvFrames ==
    {HdrErrFrame, BadVersionFrame}
    \cup BodyErrFrames({messageTypeIndex, messageTypeIndexUpdate})
    \cup IndexFrames({messageTypeIndex, messageTypeIndexUpdate}, ListsUpTo(1))
InitRecv == InitWith(MaxRecvEvents)
NextRecv ==
    \/ Running /\ ReaderTop
    \/ \E f \in RecvFrames : Running /\ ReaderRead(f)
    \/ CloseStep
    \/ IndexStep(FewIndexLists)
    \/ FailStep
SpecRecv == InitRecv /\ [][NextRecv]_vars

\* ================================================================ claims
\* The calls made on the receiver so far that are call.
Invoked(call) == Cardinality({i \in DOMAIN recvLog : recvLog[i].call = call})
\* The goroutines that have set closed and have yet to call Receiver.Close.
Closing == {p \in Procs : pc[p] = "close2" \/ (pc[p] = "close1" /\ mu = p)}

\* C1: after close() has run, every Request or Ping that had passed its
\* closed-check gets the closed result: the call is not lost in a panic of
\* its own registration, and when it waits on its reply channel, that
\* channel is closed, so that the call returns.
C1_PendingCallsGetClosed ==
    closed =>
        /\ crashed # "assignment to entry in nil map"
        /\ \A c \in PingCallers :
              pc[c] = "wait" => chans[loc[c].ch].st = "closed"

\* C2: a reply channel is fulfilled by the reader or cancelled by close(),
\* never both: no channel gets a payload and is closed by close(), none is
\* closed twice, and no payload is sent on a channel close() has closed.
C2_FulfilledOrCancelled ==
    /\ \A ch \in DOMAIN chans :
          ~(chans[ch].sent /\ "close" \in chans[ch].closers)
    /\ crashed \notin {"send on closed channel", "close of closed channel"}

\* C3: with several Requests outstanding, whatever the order of the
\* replies, a Request returns the data of a Response frame that carries the
\* msgID the call allocated; and a Response frame written here carries the
\* msgID of the Request frame its goroutine was started for, with the block
\* of that request.
C3_Correlation ==
    /\ \A c \in Callers :
          loc[c].op = "Request" /\ loc[c].res = "ok" => loc[c].from = loc[c].id
    /\ \A i \in DOMAIN wire :
          wire[i].type = messageTypeResponse =>
              /\ wire[i].by \in Tasks
              /\ wire[i].id = loc[wire[i].by].id
              /\ wire[i].part = "body" => wire[i].data = Block(loc[wire[i].by].name)

\* Two Requests are outstanding, the one registered last has its data, and
\* the reader is about to hand other data to the one registered first.
C3_RepliesOutOfOrder ==
    \E c1, c2 \in Callers :
        /\ loc[c1].id = 0 /\ pc[c1] = "wait"
        /\ loc[c2].id = 1 /\ loc[c2].op = "Request" /\ loc[c2].res = "ok"
        /\ pc[Reader] = "send" /\ loc[Reader].ch = loc[c1].ch
        /\ loc[Reader].val # loc[c2].val

\* C4: Receiver.Close is invoked once, by the close() that sets closed: the
\* invocations made, plus the close() calls that have set closed and have
\* yet to make theirs, are one when closed and none before; and a close()
\* that finds closed set changes nothing.
C4_CloseOnce ==
    /\ [](Invoked("Close") + Cardinality(Closing) = IF closed THEN 1 ELSE 0)
    /\ [][\A p \in Procs :
            pc[p] = "close1" /\ closed /\ pc'[p] # "close1" =>
                UNCHANGED <<closed, awaiting, nextId, peerLatency, indexSent, mu,
                            mwErr, wire, chans, loc, recvLog, latCh, crashed>>]_vars

\* Two goroutines have called close() and returned from it, and
\* Receiver.Close has been invoked once.
C4_TwoClosers ==
    /\ Cardinality({p \in Procs : loc[p].ret # "" /\ pc[p] \notin {"close1", "close2"}}) >= 2
    /\ Invoked("Close") = 1

\* C5: closed never goes back to false, and a Request or Ping that starts
\* when closed is set returns the closed result at once: it registers no
\* channel, writes nothing and leaves nextId alone.
CallStarts(c) ==
    \/ /\ c \in Callers
       /\ ncalls' = ncalls + 1
       /\ loc'[c].op \in {"Request", "Ping"}
       /\ loc'[c] # loc[c] \/ pc'[c] # pc[c]
    \/ c = PingTask /\ pc[c] = "start" /\ pc'[c] # "start"
C5_ClosedIsTerminal ==
    [][/\ closed => closed'
       /\ \A c \in PingCallers :
             closed /\ CallStarts(c) =>
                 /\ loc'[c].res = "closed" /\ loc'[c].ch = 0 /\ loc'[c].id = -1
                 /\ pc'[c] = RetPc(c)
                 /\ UNCHANGED <<awaiting, chans, wire, nextId>>]_vars

\* A Request or Ping made on the closed connection has returned the closed
\* result without a channel of its own.
C5_RefusedCall ==
    \E c \in Callers :
        /\ closed /\ pc[c] = "idle" /\ loc[c].op \in {"Request", "Ping"}
        /\ loc[c].res = "closed" /\ loc[c].ch = 0

\* ------------------------------------------------------------ C6: the delta
\* The entries of list that positions pos select, in list order.
Picked(list, pos) ==
    [k \in 1..Cardinality(pos) |->
        list[CHOOSE i \in pos : Cardinality({j \in pos : j <= i}) = k]]
\* A caller takes the step of Index that chooses the entries to send.
IndexChooses(c) == pc[c] = "idle" /\ pc'[c] = "ix_body"
\* A caller takes the step of Index that writes the entries.
IndexWrites(c) == pc[c] = "ix_body" /\ pc'[c] # "ix_body"
\* Entry i of list differs from what sent records for its name.
DiffersFromSent(list, sent, i) ==
    list[i].Name \notin DOMAIN sent \/ sent[list[i].Name] # list[i].Modified
\* Entry i of list differs from the nearest earlier entry of its name in the
\* list, or from sent when the list has no earlier entry of that name.
DiffersFromLast(list, sent, i) ==
    LET earlier == {j \in 1..(i - 1) : list[j].Name = list[i].Name}
    IN IF earlier = {} THEN DiffersFromSent(list, sent, i)
       ELSE list[CHOOSE j \in earlier : \A k \in earlier : k <= j].Modified # list[i].Modified

\* C6 as stated: an Index call after the first sends exactly the entries of
\* its list whose name is absent from indexSent as it was before the call or
\* whose modified differs from the one recorded there, and indexSent
\* afterwards maps each transmitted name to its new modified value.
C6_DeltaAgainstIndexSent ==
    [][\A c \in Callers :
          IndexChooses(c) /\ ~indexSent.isNil =>
              LET list == loc'[c].arg
                  pos == {i \in 1..Len(list) : DiffersFromSent(list, indexSent.map, i)}
              IN /\ loc'[c].files = Picked(list, pos)
                 /\ \A i \in pos : indexSent'.map[list[i].Name] = list[i].Modified]_vars

\* C6 amended: an Index call after the first sends, in list order, exactly
\* the entries of its list that differ in modified from the nearest earlier
\* entry of the same name in the list or, when the list has none, whose name
\* is absent from indexSent as it was before the call or whose modified
\* differs from the one recorded there; the frame written carries these
\* entries under type IndexUpdate; indexSent afterwards maps every name of
\* the list to the modified of the list's last entry of that name, which is
\* the modified of the last transmitted entry of that name when one was
\* transmitted, and is unchanged for every other name.
C6_Delta ==
    [][\A c \in Callers :
          /\ IndexChooses(c) /\ ~indexSent.isNil =>
                LET list == loc'[c].arg
                    pos == {i \in 1..Len(list) : DiffersFromLast(list, indexSent.map, i)}
                    named == {list[i].Name : i \in 1..Len(list)}
                IN /\ loc'[c].files = Picked(list, pos)
                   /\ loc'[c].type = messageTypeIndexUpdate
                   /\ ~indexSent'.isNil
                   /\ DOMAIN indexSent'.map = DOMAIN indexSent.map \cup named
                   /\ \A n \in DOMAIN indexSent.map \ named :
                          indexSent'.map[n] = indexSent.map[n]
                   /\ \A i \in 1..Len(list) :
                          (\A j \in (i + 1)..Len(list) : list[j].Name # list[i].Name)
                              => indexSent'.map[list[i].Name] = list[i].Modified
                   /\ \A n \in named :
                          LET sentOf == {i \in pos : list[i].Name = n}
                          IN sentOf # {} =>
                                indexSent'.map[n] =
                                    list[CHOOSE i \in sentOf : \A k \in sentOf : k <= i].Modified
          /\ IndexWrites(c) /\ wire' # wire =>
                /\ wire' = Append(wire, wire'[Len(wire')])
                /\ wire'[Len(wire')].part = "body"
                /\ wire'[Len(wire')].by = c
                /\ wire'[Len(wire')].type = loc[c].type
                /\ wire'[Len(wire')].files = loc[c].files]_vars

\* An update went out for a list that names one file twice, and carries
\* some of the list's entries but not all.
C6_UpdateWithRepeatedName ==
    \E c \in Callers :
        /\ pc[c] = "idle" /\ loc[c].op = "Index" /\ loc[c].res = "ok"
        /\ loc[c].type = messageTypeIndexUpdate
        /\ Len(loc[c].arg) = 2 /\ loc[c].arg[1].Name = loc[c].arg[2].Name
        /\ Len(loc[c].files) = 1
        /\ wire # <<>>
        /\ wire[Len(wire)].part = "body" /\ wire[Len(wire)].by = c
        /\ wire[Len(wire)].files = loc[c].files

\* ------------------------------------------------- C7: the first index frame
\* The positions on the wire of the headers of index frames.
IndexHeaders ==
    {i \in 1..Len(wire) :
        /\ wire[i].part = "hdr"
        /\ wire[i].type \in {messageTypeIndex, messageTypeIndexUpdate}}
\* The positions on the wire of the bodies of index frames.
IndexBodies ==
    {i \in 1..Len(wire) :
        /\ wire[i].part = "body"
        /\ wire[i].type \in {messageTypeIndex, messageTypeIndexUpdate}}

\* C7: of the index frames written to the wire, whatever the calls of Index
\* and their order, the first one has type Index and every later one has
\* type IndexUpdate; the call that finds no record of sent entries chooses
\* type Index and its whole list, also an empty one, and the body it writes
\* carries that list.
C7_FirstIndexThenUpdates ==
    /\ [](\A i \in IndexHeaders :
            wire[i].type = IF \A j \in IndexHeaders : i <= j
                           THEN messageTypeIndex ELSE messageTypeIndexUpdate)
    /\ [][\A c \in Callers :
            /\ IndexChooses(c) =>
                  /\ loc'[c].type = IF indexSent.isNil THEN messageTypeIndex
                                     ELSE messageTypeIndexUpdate
                  /\ indexSent.isNil => loc'[c].files = loc'[c].arg
                  /\ ~indexSent'.isNil
            /\ IndexWrites(c) /\ wire' # wire /\ loc[c].type = messageTypeIndex =>
                  /\ wire'[Len(wire')].type = messageTypeIndex
                  /\ wire'[Len(wire')].files = loc[c].arg]_vars

\* Two callers of Index have each put a whole frame on the wire, the first
\* of them with an empty list.
C7_EmptyFirstThenUpdate ==
    /\ Cardinality(IndexBodies) = 2
    /\ \E i, j \in IndexBodies :
          /\ i < j
          /\ wire[i].type = messageTypeIndex /\ wire[i].files = <<>>
          /\ wire[j].type = messageTypeIndexUpdate /\ wire[j].files # <<>>
          /\ wire[i].by # wire[j].by

\* ------------------------------------------------- C8: contiguous frames
\* The positions of a goroutine between the first and the last write of its
\* frame.
WritePcs == {"rq_body", "pg_flush", "ix_body", "t_body", "pong2"}
Writing == {p \in Procs : pc[p] \in WritePcs}
\* The message types whose frame has a body after the header.
HasBody(type) ==
    type \in {messageTypeIndex, messageTypeRequest, messageTypeResponse,
              messageTypeIndexUpdate}
\* Chunk i of the wire and the chunk after it are the header and the body of
\* one frame.
OneFrame(i) ==
    /\ wire[i].part = "hdr" /\ wire[i + 1].part = "body"
    /\ wire[i + 1].by = wire[i].by
    /\ wire[i + 1].type = wire[i].type
    /\ wire[i + 1].id = wire[i].id

\* C8: at most one goroutine is between the writes of its frame, and it
\* holds the lock; on the wire every body comes right after the header of
\* its own frame and every header of a frame with a body is followed at once
\* by that body, the last chunk excepted, whose writer is still writing or
\* has seen its write fail.
C8_FramesContiguous ==
    /\ Cardinality(Writing) <= 1
    /\ \A p \in Writing : mu = p
    /\ \A i \in 1..Len(wire) :
          /\ wire[i].part = "body" => i > 1 /\ OneFrame(i - 1)
          /\ wire[i].part = "hdr" /\ HasBody(wire[i].type) =>
                IF i < Len(wire) THEN OneFrame(i)
                ELSE wire[i].by \in Writing \/ mwErr \/ wbroken

\* A caller has written the header of its Request and not yet the body,
\* while a response task waits for the lock and the reader's Pong is on the
\* wire before that header.
C8_WriterWaits ==
    \E c \in Callers, t \in Tasks :
        /\ pc[c] = "rq_body" /\ pc[t] = "t_lock"
        /\ Len(wire) >= 2
        /\ wire[Len(wire)].by = c /\ wire[Len(wire)].part = "hdr"
        /\ \E i \in 1..(Len(wire) - 1) :
              wire[i].by = Reader /\ wire[i].type = messageTypePong

\* ------------------------------------------------------- C9: keep-alive
\* The keep-alive goroutine's Ping frame is on the wire.
PingSent ==
    \E i \in 1..Len(wire) : wire[i].by = PingTask /\ wire[i].type = messageTypePing
\* pingerLoop has come back from the close() of its timeout branch.
TimedOut == loc[Pinger].ret = "top" /\ pc[Pinger] \in {"top", "done"}

\* C9: when pingerLoop finds the connection open and idle it starts the
\* goroutine that calls Ping, and the frame that goroutine writes is a Ping
\* header; when the timeout fires before a latency has come, pingerLoop runs
\* close(), after which the connection is closed and Receiver.Close has been
\* invoked or is being invoked by the first closer; when the Ping returns
\* ok, pingerLoop receives the measured latency and sets peerLatency to
\* (peerLatency + measured) / 2 without touching closed, and nothing else
\* changes peerLatency.  With the goroutines scheduled fairly, an open idle
\* connection gets the Ping sent unless a frame arrives first, the
\* connection closes or the write fails, and a timeout leads to closed and
\* to the one invocation of Receiver.Close, unless a panic ends the program
\* before it.
C9_KeepAlive ==
    /\ [][/\ pc[Pinger] = "top" /\ pc'[Pinger] # "top" =>
                IF closed THEN pc'[Pinger] = "done"
                ELSE idle /\ pc'[Pinger] = "select" /\ pc'[PingTask] = "start"
          /\ pc[PingTask] = "pg_lock" /\ pc'[PingTask] # "pg_lock" /\ wire' # wire =>
                /\ wire' = Append(wire, Hdr(PingTask, messageTypePing, nextId))
                /\ nextId \in DOMAIN awaiting'.map
          /\ pc[Pinger] = "select" /\ pc'[Pinger] = "close1" => loc'[Pinger].ret = "top"
          /\ pc[Pinger] = "select" /\ pc'[Pinger] = "lat" =>
                /\ loc[PingTask].res = "ok"
                /\ latCh # <<>> /\ loc'[Pinger].lat = Head(latCh)
          /\ pc[Pinger] = "lat" /\ pc'[Pinger] # "lat" =>
                /\ peerLatency' = (peerLatency + loc[Pinger].lat) \div 2
                /\ closed' = closed
                /\ pc'[Pinger] = "top"
          /\ peerLatency' # peerLatency => pc[Pinger] = "lat"]_vars
    /\ [](TimedOut => closed /\ Invoked("Close") + Cardinality(Closing) = 1)
    /\ (pc[Pinger] = "top" /\ ~closed /\ idle)
          ~> (PingSent \/ ~idle \/ closed \/ mwErr \/ wbroken)
    /\ (pc[Pinger] = "close1")
          ~> (closed /\ (Invoked("Close") = 1 \/ crashed # "none"))

\* A Pong came in time: the connection is open and peerLatency is no
\* longer zero.
C9_LatencySmoothed ==
    /\ ~closed /\ crashed = "none"
    /\ pc[Pinger] = "top" /\ pc[PingTask] = "idle"
    /\ PingSent
    /\ loc[Pinger].lat = 4 /\ peerLatency = 2

\* ------------------------------------------------------ C10: bad headers
\* The reader's last frame had a header that was read without an error and
\* has a version other than 0 or a type outside 1..6.
BadHeader(l) ==
    /\ l.type # -1 /\ l.res = ""
    /\ l.ver # 0 \/ l.type \notin messageTypeIndex..messageTypeIndexUpdate
\* The record of Receiver.Close in the log of receiver calls.
CloseCall == [call |-> "Close", type |-> 0, files |-> <<>>, name |-> ""]

\* C10: the reader's step that reads a header with a version other than 0
\* or a type outside 1..6 takes the reader into close() and does nothing
\* else: no receiver call, no response goroutine, no frame written, nothing
\* sent on or closed of a reply channel, no caller moved; from then on the
\* reader makes no receiver call but the Close of close(), hands no payload
\* to a caller, reads no further frame, and is past close() only when the
\* connection is closed; with the goroutines scheduled fairly the
\* connection does become closed.
C10_BadHeaderCloses ==
    /\ [][/\ pc[Reader] = "read" /\ pc'[Reader] # "read" /\ BadHeader(loc'[Reader]) =>
                /\ pc'[Reader] = "close1"
                /\ recvLog' = recvLog /\ ntasks' = ntasks /\ wire' = wire
                /\ chans' = chans /\ awaiting' = awaiting /\ closed' = closed
                /\ \A p \in Procs \ {Reader} : pc'[p] = pc[p] /\ loc'[p] = loc[p]
          /\ BadHeader(loc[Reader]) /\ pc'[Reader] # pc[Reader] =>
                /\ recvLog' = recvLog \/ recvLog' = Append(recvLog, CloseCall)
                /\ \A ch \in DOMAIN chans : chans'[ch].sent = chans[ch].sent
                /\ \A c \in PingCallers : loc'[c] = loc[c]
                /\ ntasks' = ntasks /\ wire' = wire]_vars
    /\ [](BadHeader(loc[Reader]) =>
            /\ pc[Reader] \in {"close1", "close2", "top", "done"}
            /\ pc[Reader] # "close1" => closed)
    /\ (BadHeader(loc[Reader]) /\ pc[Reader] = "close1") ~> closed

\* The reader has left its loop after a bad header: the connection is
\* closed, Close is the one receiver call made, and a caller whose Request
\* was pending has returned the closed result.
C10_ClosedByBadHeader ==
    /\ BadHeader(loc[Reader]) /\ pc[Reader] = "done"
    /\ closed /\ recvLog = <<CloseCall>>
    /\ \E c \in Callers :
          /\ loc[c].op = "Request" /\ loc[c].res = "closed" /\ loc[c].ch # 0
          /\ pc[c] = "idle"
          /\ ~chans[loc[c].ch].sent

\* ------------------------------------------------- C11: msgIDs are fresh
\* A caller takes the step of Request or Ping that registers its channel.
Registers(c) == pc[c] \in {"rq_lock", "pg_lock"} /\ pc'[c] \in {"rq_body", "pg_flush"}

\* C11: the msgID under which a Request or a Ping registers its channel is
\* not the msgID of an entry of the table, so that no entry is overwritten,
\* also after nextId has wrapped; and the entry of a call that waits for its
\* reply stays the call's own channel.
C11_FreshMsgId ==
    /\ [][\A c \in Callers :
            Registers(c) => nextId \notin DOMAIN awaiting.map]_vars
    /\ [](\A c \in Callers :
            pc[c] = "wait" /\ ~awaiting.isNil /\ chans[loc[c].ch].st = "open" =>
                /\ loc[c].id \in DOMAIN awaiting.map
                /\ awaiting.map[loc[c].id] = loc[c].ch)

\* ------------------------------------- C12: Request runs off the reader
\* The response goroutines whose call of Receiver.Request has not returned.
InRequest == {t \in Tasks : pc[t] = "t_in"}

\* C12: Receiver.Request is called by a response goroutine and never by a
\* step of the reader; the reader, having started the goroutine, can go on
\* at once, whether the call has returned or not; and with the goroutines
\* scheduled fairly, but the receiver free never to return from Request,
\* the reader always comes back to reading the next frame or ends with the
\* connection closed, unless a panic ends the program.
C12_ReaderGoesOn ==
    /\ [][recvLog' # recvLog /\ recvLog'[Len(recvLog')].call = "Request" =>
            /\ pc'[Reader] = pc[Reader] /\ loc'[Reader] = loc[Reader]
            /\ \E t \in Tasks : pc[t] = "t_req" /\ pc'[t] = "t_in"]_vars
    /\ [](pc[Reader] = "rq_chk" /\ crashed = "none" => ENABLED ReaderAfterRequest)
    /\ []((pc[Reader] \notin {"read", "done"})
            => <>(pc[Reader] \in {"read", "done"} \/ crashed # "none"))

\* A call of Receiver.Request has not returned, and the reader has since
\* delivered an index to the receiver and started the goroutine of a second
\* request.
C12_ReadsPastPendingRequest ==
    /\ pc[<<"task", 1>>] = "t_in"
    /\ pc[<<"task", 2>>] \in {"t_req", "t_in"}
    /\ pc[Reader] = "read"
    /\ \E i, j \in DOMAIN recvLog :
          /\ i < j
          /\ recvLog[i].call = "Request"
          /\ recvLog[j].call \in {"Index", "IndexUpdate"}

\* ----------------------------------------------------- C13: failed writes
\* The write of the frame in hand has failed or will fail.
WriteFailed == mwErr \/ wbroken
\* A goroutine takes the last step of its write section.
EndsWrite(p) == pc[p] \in WritePcs /\ pc'[p] # pc[p]
\* A Request or Ping has returned its error after a failed write.
FailedCall(c) == loc[c].res = "err" /\ pc[c] \in {RetPc(c), "idle"}

\* C13: the last step of a write section (of Request, Ping, Index, a
\* response goroutine or the Pong reply) releases the lock, and goes into
\* close() exactly when the write or the flush failed, a Request or Ping
\* with its error as result; a call with that result never waits on its
\* reply channel, and has returned only when the connection is closed and
\* Receiver.Close has been invoked or is being invoked by the first closer;
\* with the goroutines scheduled fairly, a failed write leads to closed and
\* to the one invocation of Receiver.Close, unless a panic ends the program
\* before it.
C13_FailedWriteCloses ==
    /\ [][\A p \in Procs :
            EndsWrite(p) =>
                /\ mu = p /\ mu' = NoProc
                /\ IF WriteFailed
                   THEN /\ pc'[p] = "close1"
                        /\ p \in PingCallers => loc'[p].res = "err"
                   ELSE pc'[p] \notin {"close1", "close2"}]_vars
    /\ [](\A c \in PingCallers :
            /\ loc[c].res = "err" => pc[c] \in {"close1", "close2", RetPc(c), "idle"}
            /\ FailedCall(c) => closed /\ Invoked("Close") + Cardinality(Closing) = 1)
    /\ (WriteFailed /\ Writing # {})
          ~> (closed /\ (Invoked("Close") = 1 \/ crashed # "none"))

\* A Request whose write failed has returned its error: the lock is free,
\* the connection is closed and Receiver.Close has been invoked once.
C13_RequestFailed ==
    \E c \in Callers :
        /\ loc[c].op = "Request" /\ FailedCall(c)
        /\ mu = NoProc /\ closed /\ Invoked("Close") = 1
        /\ chans[loc[c].ch].st = "closed" /\ ~chans[loc[c].ch].sent

\* --------------------------------------------- C14: indexes are delivered
\* The reader takes the step that reads a frame.
ReaderReads == pc[Reader] = "read" /\ pc'[Reader] # "read"
\* The frame the reader has read is an Index or IndexUpdate frame that was
\* decoded without an error.
DecodedIndex(l) ==
    /\ l.type \in {messageTypeIndex, messageTypeIndexUpdate}
    /\ l.ver = 0 /\ l.res = ""
\* A record of the log of receiver calls is a delivery of an index.
IsIndexCall(r) == r.call \in {"Index", "IndexUpdate"}

\* C14: the log of receiver calls only grows at its end; the reader's step
\* that decodes an Index or IndexUpdate frame appends the call of the same
\* type with the frame's list, the reader's step for any other frame, or for
\* one it cannot decode, appends nothing, and no other step appends an
\* Index or IndexUpdate call: the calls are the decoded frames, in order.
C14_IndexesInOrder ==
    [][/\ ReaderReads =>
            LET l == loc'[Reader] IN
            IF DecodedIndex(l)
            THEN recvLog' = Append(recvLog,
                     RecvCall(IF l.type = messageTypeIndex THEN "Index" ELSE "IndexUpdate",
                              l.files, ""))
            ELSE recvLog' = recvLog
       /\ recvLog' # recvLog =>
            /\ Len(recvLog') = Len(recvLog) + 1
            /\ SubSeq(recvLog', 1, Len(recvLog)) = recvLog
            /\ IsIndexCall(recvLog'[Len(recvLog')]) => ReaderReads]_vars

\* Three index frames have been delivered, an IndexUpdate before an Index,
\* each with another list than the one before it.
C14_ThreeDelivered ==
    /\ Len(recvLog) = 3 /\ inCount = 3
    /\ \A i \in 1..3 : IsIndexCall(recvLog[i])
    /\ recvLog[1].call = "IndexUpdate" /\ recvLog[2].call = "Index"
    /\ recvLog[1].files # recvLog[2].files /\ recvLog[2].files # recvLog[3].files
    /\ recvLog[3].files = <<>>

\* ------------------------------------------ C15: the record of sent entries
\* The names indexSent has an entry for.
SentKeys == IF indexSent.isNil THEN {} ELSE DOMAIN indexSent.map
\* The names carried by the index frames written to the wire.
WrittenNames ==
    {wire[i].files[j].Name : <<i, j>> \in
        {p \in IndexBodies \X (1..MaxIdxLen) : p[2] <= Len(wire[p[1]].files)}}
\* The modified value of name n in the last index frame on the wire that
\* carries n, taken from the frame's last entry of that name.
LastWritten(n) ==
    LET has == {i \in IndexBodies : \E j \in 1..Len(wire[i].files) : wire[i].files[j].Name = n}
        i == CHOOSE k \in has : \A m \in has : m <= k
        at == {j \in 1..Len(wire[i].files) : wire[i].files[j].Name = n}
    IN wire[i].files[CHOOSE j \in at : \A m \in at : m <= j].Modified
\* No call of Index is between its update of indexSent and its last write.
NoIndexWriting == \A c \in Callers : pc[c] # "ix_body"
\* indexSent records the written frames and nothing else.
SentIsWritten ==
    /\ SentKeys = WrittenNames
    /\ \A n \in SentKeys : indexSent.map[n] = LastWritten(n)

\* C15 as stated: outside a call of Index, the names in indexSent are
\* exactly the names carried by the index frames that were written, each
\* with the modified value sent last; a name whose frame was not written is
\* not in indexSent.
C15_OnlyWrittenNames == NoIndexWriting => SentIsWritten

\* C15 amended: a name is never removed from indexSent; outside a call of
\* Index, indexSent holds every name carried by a written index frame; and
\* as long as no write has failed, it holds exactly these names, each with
\* the modified value sent last.  An Index call whose write fails leaves
\* the names it chose in indexSent.
C15_IndexSent ==
    /\ [][/\ ~indexSent.isNil => ~indexSent'.isNil
          /\ SentKeys \subseteq (IF indexSent'.isNil THEN {} ELSE DOMAIN indexSent'.map)]_vars
    /\ [](NoIndexWriting => WrittenNames \subseteq SentKeys)
    /\ [](NoIndexWriting /\ ~mwErr => SentIsWritten)

\* Two index frames have been written without a failed write, the second
\* one with a new name and a new modified value for the name of the first.
C15_TwoFramesRecorded ==
    /\ NoIndexWriting /\ ~mwErr
    /\ Cardinality(IndexBodies) = 2
    /\ indexSent.map = [n \in {"a", "b"} |-> 2]
    /\ \E i \in IndexBodies : wire[i].files = <<[Name |-> "a", Modified |-> 1]>>

\* ------------------------------------------------- C16: the table's lock
\* C16: while a goroutine holds the write lock, the reader can take each of
\* its steps on the closed flag and on the table of pending calls: the loop
\* condition, the lookup of a reply's msgID and the removal of the entry.
C16_ReaderNeverWaits ==
    mu # NoProc /\ crashed = "none" =>
        /\ pc[Reader] = "top" => ENABLED ReaderTop
        /\ pc[Reader] = "lookup" => ENABLED ReaderLookup
        /\ pc[Reader] = "del" => ENABLED ReaderDelete

\* ------------------------------------------------ C17: replies without entry
\* The table has no entry for the msgID of the reply the reader has read.
NoEntry == awaiting.isNil \/ loc[Reader].id \notin DOMAIN awaiting.map
\* The reader takes its step after the lookup of a msgID without entry.
ReaderDrops == pc[Reader] = "lookup" /\ pc'[Reader] # "lookup" /\ NoEntry
\* The reader's step has read a Response or Pong frame and goes to look its
\* msgID up.
ReaderReadsReply ==
    /\ ReaderReads /\ pc'[Reader] = "lookup"
    /\ loc'[Reader].type \in {messageTypeResponse, messageTypePong}
\* The step leaves every caller where it is, with what it holds.
CallersKeep == \A c \in PingCallers : pc'[c] = pc[c] /\ loc'[c] = loc[c]

\* C17: the reader's step after the lookup of a Response or Pong whose msgID
\* has no entry takes the reader back to the top of its loop and changes
\* nothing else: no caller is woken, no channel is sent on or closed, the
\* table, nextId, indexSent, closed and the wire stay as they are; the step
\* that read the frame has set lastReceive and has changed none of these
\* either.
C17_UnmatchedReplyDropped ==
    [][/\ ReaderDrops =>
            /\ pc'[Reader] = "top"
            /\ CallersKeep
            /\ UNCHANGED <<closed, awaiting, nextId, indexSent, chans, wire, recvLog,
                           peerLatency, mwErr, idle>>
       /\ ReaderReadsReply =>
            /\ ~idle'
            /\ CallersKeep
            /\ UNCHANGED <<closed, awaiting, nextId, indexSent, chans, wire, recvLog,
                           peerLatency, mwErr>>]_vars

\* The reader is back at the top of its loop after a second Response under
\* the msgID of a call that got its reply from the first one.
C17_DuplicateDropped ==
    /\ pc[Reader] = "top"
    /\ loc[Reader].type = messageTypeResponse /\ loc[Reader].res = ""
    /\ loc[Reader].ch = Loc0.ch
    /\ inCount = 2 /\ ~closed
    /\ \E c \in Callers :
          /\ loc[c].op = "Request" /\ loc[c].res = "ok"
          /\ loc[c].from = loc[Reader].id /\ loc[c].id = loc[Reader].id
          /\ chans[loc[c].ch].sent

\* --------------------------------------------- C18: closed and the table
\* The table of pending calls has no entry.
TableEmpty == awaiting.isNil \/ DOMAIN awaiting.map = {}

\* C18: in every reachable state, a closed connection has an empty table of
\* pending calls.
C18_ClosedMeansEmpty == closed => TableEmpty

\* ------------------------------------------ C19: Close is the last call
\* C19: in the log of receiver calls, a Close is followed by no other call.
C19_CloseIsLast ==
    \A i \in 1..Len(recvLog) : recvLog[i].call = "Close" => i = Len(recvLog)

\* --------------------------------------------- C20: no write after close
\* C20: no step taken with closed true writes to the wire or changes nextId
\* or indexSent.
C20_FrozenOnceClosed ==
    [][closed => UNCHANGED <<wire, nextId, indexSent>>]_vars

====
